---- MODULE Spec2Model ----
(***************************************************************************)
(* A model of dust (src/main.rs): a du-style reporter.  main() parses the  *)
(* command line, expands a glob pattern, walks every expanded root,        *)
(* sorts, filters by percentage and prints an aligned table and a footer.  *)
(*                                                                         *)
(* Text is modelled as sequences of one-character strings, so that widths  *)
(* and columns are those of the text the program prints.  An f64 is a      *)
(* record: NaN, or an exact fraction num/den (den > 0).  Within the bounds *)
(* of the model every integer is far below 2^53 and every comparison of a  *)
(* quotient with a threshold is decided by a margin far above one ulp, so  *)
(* the exact fraction decides as the f64 does.                             *)
(***************************************************************************)
EXTENDS Integers, Sequences, FiniteSets, TLC

\* ------------------------------------------------------------------ bounds

\* The most roots one glob expansion yields.
MaxRoots == 2

\* format_count is applied to every n in 0..MaxCount and to its multiples
\* by the scales of CountScales.
MaxCount == 1100

\* ------------------------------------------------------------------- text

DigitChars == <<"0", "1", "2", "3", "4", "5", "6", "7", "8", "9">>

\* format!("{}", n) of an unsigned integer: its decimal digits.
RECURSIVE Digits(_)
Digits(n) ==
    IF n < 10 THEN <<DigitChars[n + 1]>>
    ELSE Digits(n \div 10) \o <<DigitChars[(n % 10) + 1]>>

RECURSIVE Spaces(_)
Spaces(k) == IF k <= 0 THEN <<>> ELSE <<" ">> \o Spaces(k - 1)

RECURSIVE Dashes(_)
Dashes(k) == IF k <= 0 THEN <<>> ELSE <<"-">> \o Dashes(k - 1)

\* {:>w}: right-aligned in w columns; text longer than w is not cut.
PadLeft(s, w) == Spaces(w - Len(s)) \o s

\* A mutant of Pad3: the group is written without its leading zeros.
Pad3Unpadded(n) == Digits(n)

\* {:03} of a number below 1000.
Pad3(n) ==
    <<DigitChars[(n \div 100) + 1], DigitChars[((n \div 10) % 10) + 1],
      DigitChars[(n % 10) + 1]>>

RECURSIVE comma(_)
comma(n) ==
    IF n < 1000 THEN Digits(n)
    ELSE comma(n \div 1000) \o <<",">> \o Pad3(n % 1000)

format_count(n) == comma(n)

\* The integer nearest to num/den (den > 0, num >= 0), a tie going to the
\* even one: how {:.2} rounds the exact value of the f64 it prints.
RoundHalfEven(num, den) ==
    LET q == num \div den
        r == num % den
    IN  IF 2 * r < den THEN q
        ELSE IF 2 * r > den THEN q + 1
        ELSE IF q % 2 = 0 THEN q ELSE q + 1

\* {:.2} of the non-negative value h/100.
Fixed2(h) ==
    Digits(h \div 100) \o <<".">> \o
    <<DigitChars[((h \div 10) % 10) + 1], DigitChars[(h % 10) + 1]>>

SIZES == <<"B", "K", "M", "G", "T", "P", "E", "Z", "Y">>

\* The while loop of format_size: size is n / den, den = 1024^order.
RECURSIVE ScaleOrder(_, _, _)
ScaleOrder(n, den, order) ==
    IF n >= 1024 * den /\ order + 1 < Len(SIZES)
    THEN ScaleOrder(n, 1024 * den, order + 1)
    ELSE <<den, order>>

format_size(n) ==
    LET s == ScaleOrder(n, 1, 0)
    IN  Fixed2(RoundHalfEven(100 * n, s[1])) \o <<" ", SIZES[s[2] + 1]>>

\* --------------------------------------------------------------------- f64

NaN == [kind |-> "nan", num |-> 0, den |-> 1]
Inf == [kind |-> "inf", num |-> 1, den |-> 1]
Fin(a, b) == [kind |-> "fin", num |-> a, den |-> b]

\* a as f64 / b as f64 for unsigned a and b: 0/0 is NaN, a/0 is +inf.
F64Div(a, b) ==
    IF b = 0 THEN (IF a = 0 THEN NaN ELSE Inf) ELSE Fin(a, b)

\* x < y on f64: false as soon as one side is NaN.
F64Lt(x, y) ==
    IF x.kind = "nan" \/ y.kind = "nan" THEN FALSE
    ELSE IF x.kind = "inf" THEN FALSE
    ELSE IF y.kind = "inf" THEN TRUE
    ELSE x.num * y.den < y.num * x.den

\* {:>5.2} of a non-negative f64 (the precision does not apply to NaN and
\* inf), then '%'.
FormatPercent(p) ==
    PadLeft(IF p.kind = "nan" THEN <<"N", "a", "N">>
            ELSE IF p.kind = "inf" THEN <<"i", "n", "f">>
            ELSE Fixed2(RoundHalfEven(100 * p.num, p.den)), 5) \o <<"%">>

\* ------------------------------------------------------------ command line

\* The values -m is given in the model: f64::from_str accepts each of them
\* (-5, 20, 100 and NaN).  No -m gives 0.
MinValues == {Fin(0 - 5, 1), Fin(20, 1), Fin(100, 1), NaN}

\* A command line, as getopts and str::parse see it.  bad: why
\* Options::parse refuses it ("none": it does not).  m: -m is "absent",
\* carries a value f64::from_str parses ("value", mval) or one it does not
\* ("invalid").  input: the first free argument, a glob pattern that is
\* syntactically valid ("ok") or not ("bad"); no free argument gives "*",
\* a valid one.
Argvs ==
    [bad : {"none", "unrecognized", "missing", "duplicated"},
     h : BOOLEAN, r : BOOLEAN, P : BOOLEAN, p : BOOLEAN,
     m : {"absent", "invalid"}, mval : {Fin(0, 1)}, input : {"ok", "bad"}]
    \cup
    [bad : {"none"}, h : {FALSE}, r : BOOLEAN, P : BOOLEAN, p : BOOLEAN,
     m : {"value"}, mval : MinValues, input : {"ok"}]

NoOpts == [reverse |-> FALSE, percentage |-> FALSE, path |-> FALSE,
           min |-> Fin(0, 1), input |-> "ok"]

\* ------------------------------------------------------------- file system

\* A path is the sequence of its components, a component the rank of its
\* name among the names.  Path's Ord compares component by component.
PathUniverse == {<<1>>, <<1, 1>>, <<2>>}

RECURSIVE PathLess(_, _)
PathLess(a, b) ==
    IF b = <<>> THEN FALSE
    ELSE IF a = <<>> THEN TRUE
    ELSE IF Head(a) # Head(b) THEN Head(a) < Head(b)
    ELSE PathLess(Tail(a), Tail(b))

\* What WalkDir yields for one node and symlink_metadata() says of it: an
\* error (ok = FALSE) at the walk or at the stat, or the node's kind and
\* the length its own metadata reports.
File(n) == [ok |-> TRUE, kind |-> "file", len |-> n]
Dir(n) == [ok |-> TRUE, kind |-> "dir", len |-> n]
Symlink(n) == [ok |-> TRUE, kind |-> "symlink", len |-> n]
WalkErr == [ok |-> FALSE, kind |-> "none", len |-> 0]

\* The trees a root may hold, each as the sequence WalkDir yields, the root
\* first.  A directory's own length is what the file system reports: 0 on
\* some, a block (4096) on others.  <<WalkErr>>: the root cannot be read, or
\* is gone before its walk.
Trees ==
    {<<WalkErr>>,
     <<File(0)>>,
     <<File(500)>>,
     <<Dir(4096)>>,
     <<Dir(0), File(500), File(1500)>>,
     <<Dir(4096), File(500), Symlink(7), WalkErr, Dir(4096), File(0),
       File(1500), Dir(0), File(1), File(2)>>}

\* ------------------------------------------------------------------- state

VARIABLES
    pc,           \* where main() is
    argv,         \* the command line given
    opts,         \* Opts, once parsed
    exit,         \* the exit status: -1 while running
    stderr,       \* what was written to the error stream
    stdout,       \* the lines printed
    items,        \* what the glob iterator yields
    dirs,         \* main's dirs
    i,            \* walk_entries: the next root
    cur,          \* walk_entries: get_sizes of root i, awaiting the fold
    total_size, total_count, entries,    \* the fold's accumulator
    walked,       \* history: per root, get_sizes' result and exists()
    fs,           \* the tree found under each root walked
    returned,     \* the entries as walk_entries returned them
    total_count_str, count_width,
    k,            \* the print loop: the next entry
    n, buf        \* format_count alone: its argument and its result

vars == <<pc, argv, opts, exit, stderr, stdout, items, dirs, i, cur,
          total_size, total_count, entries, walked, fs, returned,
          total_count_str, count_width, k, n, buf>>

mainVars == <<pc, argv, opts, exit, stderr, stdout, items, dirs, i, cur,
              total_size, total_count, entries, walked, fs, returned,
              total_count_str, count_width, k>>

\* ---------------------------------------------------------------- the walk

\* get_sizes: over what the walk yields, the nodes in error dropped, the
\* sum of the lengths and the number of nodes.
RECURSIVE get_sizes(_)
get_sizes(tree) ==
    IF tree = <<>> THEN <<0, 0>>
    ELSE LET rest == get_sizes(SubSeq(tree, 1, Len(tree) - 1))
             e == tree[Len(tree)]
         IN  IF e.ok THEN <<rest[1] + e.len, rest[2] + 1>> ELSE rest

\* A mutant of fold_entry: a root that is gone adds nothing to the totals.
fold_entry_existing_only(acc, path, sz, ex) ==
    IF ex
    THEN [total_size |-> acc.total_size + sz[1],
          total_count |-> acc.total_count + sz[2],
          entries |-> Append(acc.entries,
                             [path |-> path, size |-> sz[1], count |-> sz[2]])]
    ELSE acc

\* A mutant of fold_entry: the two totals are fed from the wrong fields.
fold_entry_swapped(acc, path, sz, ex) ==
    [total_size |-> acc.total_size + sz[2],
     total_count |-> acc.total_count + sz[1],
     entries |-> IF ex
                 THEN Append(acc.entries,
                             [path |-> path, size |-> sz[1], count |-> sz[2]])
                 ELSE acc.entries]

\* The closure walk_entries folds with: ex is what path.exists() answers.
fold_entry(acc, path, sz, ex) ==
    [total_size |-> acc.total_size + sz[1],
     total_count |-> acc.total_count + sz[2],
     entries |-> IF ex
                 THEN Append(acc.entries,
                             [path |-> path, size |-> sz[1], count |-> sz[2]])
                 ELSE acc.entries]

\* ----------------------------------------------------------------- sorting

\* a's sort key is at most b's: the path with -p, the size without.
KeyLeq(by_path, a, b) ==
    IF by_path THEN ~PathLess(b.path, a.path) ELSE a.size <= b.size

Reverse(s) == [j \in 1..Len(s) |-> s[Len(s) + 1 - j]]

\* What sort_unstable_by_key may leave: every arrangement of es in key
\* order (entries of equal key in any order).
SortedArrangements(es, by_path) ==
    {t \in {[j \in 1..Len(es) |-> es[f[j]]] : f \in Permutations(1..Len(es))} :
        \A j \in 1..(Len(t) - 1) : KeyLeq(by_path, t[j], t[j + 1])}

\* A mutant of reversed: -r is ignored.
reversed_never(es, rev) == es

reversed(es, rev) == IF rev THEN Reverse(es) ELSE es

\* ---------------------------------------------------------------- printing

Percentage(size, total) == F64Div(100 * size, total)

\* A mutant of skipped: the filter is <=.
skipped_le(p, min) ==
    \/ F64Lt(p, min)
    \/ p.kind = "fin" /\ min.kind = "fin" /\ p.num * min.den = min.num * p.den

\* if p < opts.min { continue }
skipped(p, min) == F64Lt(p, min)

\* A row up to the end of its count field: the three print! calls.
RowText(e, p, percentage, width) ==
    PadLeft(format_size(e.size), 10) \o <<" ">>
    \o (IF percentage THEN <<" ">> \o FormatPercent(p) \o <<" ">> ELSE <<>>)
    \o <<" ">> \o PadLeft(format_count(e.count), width) \o <<" ">>

PercentColumn(percentage) == IF percentage THEN 8 ELSE 0

FooterOffset(percentage, width) == PercentColumn(percentage) + width + 1

SeparatorText(percentage, width) ==
    Dashes(10) \o Spaces(PercentColumn(percentage) + 2)
    \o Dashes(FooterOffset(percentage, width) - PercentColumn(percentage) - 1)

TotalText(size, count_str, percentage, width) ==
    PadLeft(format_size(size), 10) \o <<" ">>
    \o PadLeft(count_str, FooterOffset(percentage, width))

Line(kind, text, path, sep) ==
    [kind |-> kind, text |-> text, path |-> path, sep |-> sep]

IsDir(path) == fs[path][1].kind = "dir"

\* ----------------------------------------------------------------- actions

\* Every sequence of at most MaxRoots distinct paths: glob yields each path
\* it matches once.
RootSeqs ==
    UNION {{q \in [1..len -> PathUniverse] :
               \A a, b \in 1..len : a # b => q[a] # q[b]} : len \in 0..MaxRoots}

\* What the glob iterator yields: paths, with at most one error (a
\* directory that cannot be read) before the item at errAt (0: no error).
GlobItems(paths, errAt) ==
    LET ok == [j \in 1..Len(paths) |-> [ok |-> TRUE, path |-> paths[j]]]
    IN  IF errAt = 0 THEN ok
        ELSE SubSeq(ok, 1, errAt - 1) \o <<[ok |-> FALSE, path |-> <<>>]>>
             \o SubSeq(ok, errAt, Len(ok))

CountInputs ==
    (0..MaxCount)
    \cup {m * s : m \in 0..MaxCount, s \in {999, 1000, 1001, 1000000}}
    \cup {999999999, 1000000000, 2147483647}

Init ==
    /\ pc = "parse"
    /\ argv \in Argvs
    /\ opts = NoOpts
    /\ exit = 0 - 1
    /\ stderr = <<>>
    /\ stdout = <<>>
    /\ items = <<>>
    /\ dirs = <<>>
    /\ i = 1
    /\ cur = <<0, 0>>
    /\ total_size = 0
    /\ total_count = 0
    /\ entries = <<>>
    /\ walked = <<>>
    /\ fs = <<>>
    /\ returned = <<>>
    /\ total_count_str = <<>>
    /\ count_width = 0
    /\ k = 1
    /\ n = 0
    /\ buf = <<>>

\* Opts::parse, lines 19-52, with print_usage.  A panic ends the process
\* with status 101.
Parse ==
    /\ pc = "parse"
    /\ IF argv.bad # "none"
       THEN /\ stderr' = Append(stderr, "could not parse args")
            /\ exit' = 1
            /\ pc' = "exited"
            /\ UNCHANGED <<opts, stdout>>
       ELSE IF argv.h
       THEN /\ stdout' = Append(stdout, Line("usage", <<>>, <<>>, FALSE))
            /\ exit' = 0
            /\ pc' = "exited"
            /\ UNCHANGED <<opts, stderr>>
       ELSE IF argv.m = "invalid"
       THEN /\ stderr' = Append(stderr, "panic")
            /\ exit' = 101
            /\ pc' = "exited"
            /\ UNCHANGED <<opts, stdout>>
       ELSE /\ opts' = [reverse |-> argv.r, percentage |-> argv.P,
                        path |-> argv.p, min |-> argv.mval,
                        input |-> argv.input]
            /\ pc' = "glob"
            /\ UNCHANGED <<exit, stderr, stdout>>
    /\ UNCHANGED <<argv, items, dirs, i, cur, total_size, total_count, entries,
                   walked, fs, returned, total_count_str, count_width, k,
                   n, buf>>

\* main, lines 68-76: glob, die on a pattern error, collect and unwrap.
Glob ==
    /\ pc = "glob"
    /\ IF opts.input = "bad"
       THEN /\ stderr' = Append(stderr, "error: could not use that pattern")
            /\ exit' = 1
            /\ pc' = "exited"
            /\ UNCHANGED <<items, dirs>>
       ELSE \E paths \in RootSeqs : \E errAt \in 0..(Len(paths) + 1) :
            /\ items' = GlobItems(paths, errAt)
            /\ IF \E j \in 1..Len(items') : ~items'[j].ok
               THEN /\ stderr' = Append(stderr, "panic")
                    /\ exit' = 101
                    /\ pc' = "exited"
                    /\ UNCHANGED dirs
               ELSE /\ dirs' = paths
                    /\ pc' = "walk"
                    /\ UNCHANGED <<exit, stderr>>
    /\ UNCHANGED <<argv, opts, stdout, i, cur, total_size, total_count,
                   entries, walked, fs, returned, total_count_str,
                   count_width, k, n, buf>>

\* walk_entries, line 150: get_sizes of the next root, over the tree the
\* file system holds there.
GetSizes ==
    /\ pc = "walk"
    /\ i <= Len(dirs)
    /\ \E tree \in Trees :
        /\ fs' = (dirs[i] :> tree) @@ fs
        /\ cur' = get_sizes(tree)
    /\ pc' = "fold"
    /\ UNCHANGED <<argv, opts, exit, stderr, stdout, items, dirs, i,
                   total_size, total_count, entries, walked, returned,
                   total_count_str, count_width, k, n, buf>>

\* walk_entries, lines 153-158: the fold's closure on root i.  By now a
\* root that was there at its walk may be gone: exists() answers either
\* way.  A root that was not there stays away.
Fold ==
    /\ pc = "fold"
    /\ \E ex \in (IF fs[dirs[i]][1].ok THEN BOOLEAN ELSE {FALSE}) :
        LET acc == fold_entry([total_size |-> total_size,
                               total_count |-> total_count,
                               entries |-> entries], dirs[i], cur, ex)
        IN  /\ total_size' = acc.total_size
            /\ total_count' = acc.total_count
            /\ entries' = acc.entries
            /\ walked' = Append(walked, [path |-> dirs[i], size |-> cur[1],
                                         count |-> cur[2], exists |-> ex])
    /\ i' = i + 1
    /\ pc' = "walk"
    /\ UNCHANGED <<argv, opts, exit, stderr, stdout, items, dirs, cur, fs,
                   returned, total_count_str, count_width, k, n, buf>>

\* main, lines 78-91: walk_entries returns; the total count is formatted,
\* the entries sorted and, with -r, reversed.
Arrange ==
    /\ pc = "walk"
    /\ i > Len(dirs)
    /\ returned' = entries
    /\ total_count_str' = format_count(total_count)
    /\ count_width' = Len(total_count_str')
    /\ \E t \in SortedArrangements(entries, opts.path) :
        entries' = reversed(t, opts.reverse)
    /\ k' = 1
    /\ pc' = "print"
    /\ UNCHANGED <<argv, opts, exit, stderr, stdout, items, dirs, i, cur,
                   total_size, total_count, walked, fs, n, buf>>

\* main, lines 93-115: one turn of the print loop.
PrintEntry ==
    /\ pc = "print"
    /\ k <= Len(entries)
    /\ LET e == entries[k]
           p == Percentage(e.size, total_size)
       IN  stdout' =
             IF skipped(p, opts.min) THEN stdout
             ELSE Append(stdout,
                         Line("row",
                              RowText(e, p, opts.percentage, count_width),
                              e.path, IsDir(e.path)))
    /\ k' = k + 1
    /\ UNCHANGED <<pc, argv, opts, exit, stderr, items, dirs, i, cur,
                   total_size, total_count, entries, walked, fs, returned,
                   total_count_str, count_width, n, buf>>

\* main, lines 117-137: the separator, the totals, and the return.
Footer ==
    /\ pc = "print"
    /\ k > Len(entries)
    /\ stdout' = stdout
         \o <<Line("separator",
                   SeparatorText(opts.percentage, count_width), <<>>, FALSE),
              Line("total",
                   TotalText(total_size, total_count_str, opts.percentage,
                             count_width), <<>>, FALSE)>>
    /\ exit' = 0
    /\ pc' = "exited"
    /\ UNCHANGED <<argv, opts, stderr, items, dirs, i, cur, total_size,
                   total_count, entries, walked, fs, returned,
                   total_count_str, count_width, k, n, buf>>

Next == Parse \/ Glob \/ GetSizes \/ Fold \/ Arrange \/ PrintEntry \/ Footer

Spec == Init /\ [][Next]_vars

\* format_count alone, on every argument of CountInputs.
InitCount ==
    /\ pc = "format_count"
    /\ argv \in {a \in Argvs : a.bad = "none" /\ ~a.h /\ ~a.r /\ ~a.P /\ ~a.p
                              /\ a.m = "absent" /\ a.input = "ok"}
    /\ opts = NoOpts
    /\ exit = 0 - 1
    /\ stderr = <<>>
    /\ stdout = <<>>
    /\ items = <<>>
    /\ dirs = <<>>
    /\ i = 1
    /\ cur = <<0, 0>>
    /\ total_size = 0
    /\ total_count = 0
    /\ entries = <<>>
    /\ walked = <<>>
    /\ fs = <<>>
    /\ returned = <<>>
    /\ total_count_str = <<>>
    /\ count_width = 0
    /\ k = 1
    /\ n \in CountInputs
    /\ buf = <<>>

FormatCount ==
    /\ pc = "format_count"
    /\ buf = <<>>
    /\ buf' = format_count(n)
    /\ UNCHANGED <<mainVars, n>>

NextCount == FormatCount

SpecCount == InitCount /\ [][NextCount]_vars

\* ------------------------------------------------------------------ claims

RECURSIVE SumSizes(_)
SumSizes(s) == IF s = <<>> THEN 0 ELSE s[1].size + SumSizes(Tail(s))

RECURSIVE SumCounts(_)
SumCounts(s) == IF s = <<>> THEN 0 ELSE s[1].count + SumCounts(Tail(s))

\* Per root of dirs, in order, what get_sizes gives on the tree under it.
RootSizes ==
    [j \in 1..Len(dirs) |->
        LET sz == get_sizes(fs[dirs[j]])
        IN  [path |-> dirs[j], size |-> sz[1], count |-> sz[2]]]

RECURSIVE Existing(_, _)
Existing(rs, w) ==
    IF rs = <<>> THEN <<>>
    ELSE (IF Head(w).exists THEN <<Head(rs)>> ELSE <<>>)
         \o Existing(Tail(rs), Tail(w))

\* main has walk_entries' result in hand.
\* The footer is printed: the run went through to its end.
Reported ==
    pc = "exited" /\ exit = 0 /\ stdout # <<>>
    /\ stdout[Len(stdout)].kind = "total"

\* main has walk_entries' result in hand.
Walked == pc = "print" \/ Reported

Rows == SelectSeq(stdout, LAMBDA l : l.kind = "row")

\* C1: walk_entries returns totals equal to the sums of get_sizes(root)
\* over all the roots, those that fail exists() after their walk included,
\* and an Entry exactly for the roots that pass it, in the roots' order.
C1_TotalsOverAllRoots ==
    pc = "print" =>
        LET roots == RootSizes
        IN  /\ Len(walked) = Len(dirs)
            /\ total_size = SumSizes(roots)
            /\ total_count = SumCounts(roots)
            /\ returned = Existing(roots, walked)

\* A root of positive size was gone at its check, beside one that was not.
C1_Witness ==
    /\ pc = "print"
    /\ returned # <<>>
    /\ \E j \in 1..Len(walked) : ~walked[j].exists /\ walked[j].size > 0

\* C2: get_sizes returns as count the number of walked nodes, the root
\* included, and as size the bytes of the files and of the symlinks
\* themselves, a directory node adding nothing.
RECURSIVE FileBytes(_)
FileBytes(tree) ==
    IF tree = <<>> THEN 0
    ELSE (IF Head(tree).ok /\ Head(tree).kind # "dir" THEN Head(tree).len
          ELSE 0) + FileBytes(Tail(tree))

C2_DirectoriesAddNothing ==
    pc = "fold" =>
        LET tree == fs[dirs[i]]
        IN  /\ cur[2] = Cardinality({j \in 1..Len(tree) : tree[j].ok})
            /\ cur[1] = FileBytes(tree)

\* C3: with a grand total size of 0 the run does not crash, prints no row
\* when minPercentage > 0 and prints every entry when minPercentage <= 0.
C3_ZeroTotalFiltersAll ==
    (Walked /\ total_size = 0) =>
        /\ exit # 101
        /\ Reported =>
            /\ F64Lt(Fin(0, 1), opts.min) => Rows = <<>>
            /\ (opts.min.kind = "fin" /\ ~F64Lt(Fin(0, 1), opts.min))
                   => Len(Rows) = Len(entries)

\* C4: a malformed command line or an invalid glob pattern ends the
\* process with one diagnostic line and status 1, never a panic; -h and a
\* normal completion end it with status 0.
Malformed ==
    \/ argv.bad # "none"
    \/ ~argv.h /\ (argv.m = "invalid" \/ argv.input = "bad")

C4_MalformedExitsOne ==
    pc = "exited" =>
        /\ Malformed => (exit = 1 /\ Len(stderr) = 1 /\ stderr[1] # "panic")
        /\ (argv.bad = "none" /\ argv.h) => exit = 0
        /\ Reported => exit = 0

\* C5: an error the glob iterator yields for one path is skipped: the
\* paths expanded without error are still walked and reported.
C5_GlobErrorSkipped ==
    (pc = "exited" /\ \E j \in 1..Len(items) : ~items[j].ok) =>
        /\ exit = 0
        /\ Len(dirs) = Cardinality({j \in 1..Len(items) : items[j].ok})
        /\ Reported

\* C6: the count field of every row ends at the column where the footer's
\* total count ends and where the separator line ends.
RECURSIVE RightEdge(_)
RightEdge(text) ==
    IF text = <<>> \/ text[Len(text)] # " " THEN Len(text)
    ELSE RightEdge(SubSeq(text, 1, Len(text) - 1))

C6_CountColumnAligned ==
    Reported =>
        LET sep == stdout[Len(stdout) - 1]
            tot == stdout[Len(stdout)]
        IN  /\ RightEdge(sep.text) = RightEdge(tot.text)
            /\ \A j \in 1..Len(Rows) :
                   RightEdge(Rows[j].text) = RightEdge(tot.text)

\* C7: with a positive grand total an entry is left out exactly when
\* 100 * size / total < minPercentage, so one at exactly minPercentage is
\* printed; the footer shows the totals over all the roots whatever is
\* left out.
Kept == SelectSeq(entries,
                  LAMBDA e : ~F64Lt(F64Div(100 * e.size, total_size), opts.min))

C7_StrictFilter ==
    (Reported /\ total_size > 0) =>
        LET roots == RootSizes
            rows == Rows
            kept == Kept
        IN  /\ Len(rows) = Len(kept)
            /\ \A j \in 1..Len(rows) : rows[j].path = kept[j].path
            /\ stdout[Len(stdout)].text =
                   TotalText(SumSizes(roots), format_count(SumCounts(roots)),
                             opts.percentage, count_width)

\* One entry at exactly minPercentage is printed, another is left out.
C7_Witness ==
    /\ Reported
    /\ total_size > 0
    /\ opts.min.kind = "fin"
    /\ Len(Rows) < Len(entries)
    /\ \E j \in 1..Len(Rows) : \E e \in {entries[x] : x \in 1..Len(entries)} :
           /\ e.path = Rows[j].path
           /\ 100 * e.size * opts.min.den = opts.min.num * total_size

\* C8: the entries printed are a permutation of those walk_entries
\* returned, non-decreasing by size, or by path with -p, and with -r in
\* the reverse, non-increasing, order.
SeqToSet(s) == {s[j] : j \in 1..Len(s)}

C8_SortedThenReversed ==
    (pc = "print" \/ pc = "exited") =>
        /\ Len(entries) = Len(returned)
        /\ SeqToSet(entries) = SeqToSet(returned)
        /\ \A j \in 1..(Len(entries) - 1) :
               LET a == IF opts.reverse THEN entries[j + 1] ELSE entries[j]
                   b == IF opts.reverse THEN entries[j] ELSE entries[j + 1]
               IN  IF opts.path THEN ~PathLess(b.path, a.path)
                   ELSE a.size <= b.size

\* -r -p moved entries of different sizes away from the order they came in.
C8_Witness ==
    /\ pc = "print"
    /\ opts.reverse /\ opts.path
    /\ Len(entries) >= 2
    /\ entries # returned
    /\ entries[1].size < entries[2].size

\* C9: format_count(n) is n's decimal digits in groups of three from the
\* right, a comma between groups: without the commas it reads n, it has no
\* leading zero (n = 0 is "0"), the leading group has 1 to 3 digits, every
\* later one exactly 3, and below 1000 there is no comma.
DigitValue(c) == CHOOSE d \in 0..9 : DigitChars[d + 1] = c

IsDigit(c) == \E d \in 0..9 : DigitChars[d + 1] = c

RECURSIVE ReadNat(_)
ReadNat(s) ==
    IF s = <<>> THEN 0
    ELSE 10 * ReadNat(SubSeq(s, 1, Len(s) - 1)) + DigitValue(s[Len(s)])

C9_CommaGroups ==
    buf # <<>> =>
        LET digits == SelectSeq(buf, LAMBDA c : c # ",")
        IN  /\ \A j \in 1..Len(digits) : IsDigit(digits[j])
            /\ ReadNat(digits) = n
            /\ buf[1] # "0" \/ buf = <<"0">>
            /\ \A j \in 1..Len(buf) :
                   (buf[j] = ",") <=> ((Len(buf) - j + 1) % 4 = 0)
            /\ n < 1000 => Len(digits) = Len(buf)

\* Two commas, and a group written with leading zeros.
C9_Witness ==
    /\ buf # <<>>
    /\ n >= 1000000
    /\ (n \div 1000) % 1000 < 100
    /\ Len(buf) = 9

\* C10: every Entry returned has size and count at most the grand totals,
\* and so do the entries' sums; hence with a positive total every
\* percentage lies in [0, 100] and no entry's formatted count is longer
\* than the formatted grand-total count.
C10_EntriesWithinTotals ==
    (pc = "print" \/ Reported) =>
        /\ SumSizes(returned) <= total_size
        /\ SumCounts(returned) <= total_count
        /\ \A j \in 1..Len(returned) :
               LET e == returned[j]
                   p == F64Div(100 * e.size, total_size)
               IN  /\ e.size <= total_size
                   /\ e.count <= total_count
                   /\ total_size > 0 =>
                          /\ p.kind = "fin"
                          /\ ~F64Lt(p, Fin(0, 1))
                          /\ ~F64Lt(Fin(100, 1), p)
                   /\ Len(format_count(e.count)) <= count_width

\* An entry smaller than the total, its count shorter than the column.
C10_Witness ==
    /\ pc = "print"
    /\ total_size > 0
    /\ \E j \in 1..Len(returned) :
           /\ returned[j].size > 0
           /\ returned[j].size < total_size
           /\ Len(format_count(returned[j].count)) < count_width

====
